---------------------------- MODULE Spec2Model ----------------------------
(***************************************************************************)
(* condor_oracle.py: construction of the 17-qubit query oracle             *)
(*     U_f |x, y> = |x, y (+) f(x)>,  f(x) = 1 iff x == SECRET_BITSTRING   *)
(* as a circuit description, and the action of that description on basis   *)
(* states.                                                                 *)
(*                                                                         *)
(* The module namespace (the two module-level names), the objects the      *)
(* calls allocate and each call's frame are the state.  One action models  *)
(* one statement of the source; several calls may be in progress at once.  *)
(***************************************************************************)
EXTENDS Integers, Sequences, FiniteSets, TLC

(***************************************************************************)
(* Bounds of the model.                                                    *)
(***************************************************************************)
\* number of calls of build_Uf_condor() that may be in progress together
NumCalls == 2
\* how many times in sequence a simulated register is fed through the circuit
MaxApplications == 2
\* longest suffix appended to the secret when configurations are enumerated
MaxExtra == 2

(***************************************************************************)
(* Module-level constants of the source.                                   *)
(***************************************************************************)
N_CONFIG_BITS == 16

\* a Python str is a sequence of one-character strings
SECRET_BITSTRING ==
  << "1", "0", "1", "1", "1", "0", "1", "0",
     "1", "1", "0", "1", "0", "1", "0", "1" >>

VARIABLES
  module,     \* the module namespace: N_CONFIG_BITS and SECRET_BITSTRING
  heap,       \* the objects allocated so far: reference -> QuantumCircuit
  pc,         \* per call: the statement it is about to execute
  frame,      \* per call: the local variables of the two functions
  returned,   \* per call: the reference build_Uf_condor() returned
  sim         \* a register being driven through a returned circuit

vars == << module, heap, pc, frame, returned, sim >>

Calls == 1 .. NumCalls
\* the call whose circuit is handed to the simulator
SimCalls == { 1 }

(***************************************************************************)
(* References.  Every constructor call yields an object distinct from all  *)
(* others; an object is named by the call and the site that allocated it.  *)
(***************************************************************************)
NoRef == << 0, "none" >>

NewRef_shared(c, site) == << 1, site >>

NewRef(c, site) == << c, site >>

(***************************************************************************)
(* The circuit library's structural primitives.                            *)
(***************************************************************************)
QuantumCircuit_narrow(num, name) ==
  [ num_qubits |-> num - 1, name |-> name, data |-> << >> ]

QuantumCircuit(num, name) ==
  [ num_qubits |-> num, name |-> name, data |-> << >> ]

range(n) == [ k \in 1 .. n |-> k - 1 ]

Gate(name, label, num, definition) ==
  [ name |-> name, label |-> label, num_qubits |-> num,
    definition |-> definition, qargs |-> << >> ]

XGate == Gate("x", "", 1, NoRef)

MCXGate(num_ctrl) == Gate("mcx", "", num_ctrl + 1, NoRef)

SeqToSet(s) == { s[k] : k \in 1 .. Len(s) }

\* append() rejects a qubit outside the circuit, a repeated qubit and a
\* wrong number of qubits with CircuitError
append_ok(circ, gate, qargs) ==
  /\ Len(qargs) = gate.num_qubits
  /\ \A k \in 1 .. Len(qargs) : qargs[k] \in 0 .. circ.num_qubits - 1
  /\ Cardinality(SeqToSet(qargs)) = Len(qargs)

append(circ, gate, qargs) ==
  [ circ EXCEPT !.data = Append(@, [ gate EXCEPT !.qargs = qargs ]) ]

\* to_gate(): a gate of the circuit's name and width; its definition is a
\* copy of the circuit, held in a fresh object
to_gate(circ, label, defref) ==
  Gate(circ.name, label, circ.num_qubits, defref)

(***************************************************************************)
(* zeros = [i for i, b in enumerate(SECRET_BITSTRING) if b == "0"]         *)
(***************************************************************************)
RECURSIVE Filter0(_, _)
Filter0(s, k) ==
  IF k > Len(s) THEN << >>
  ELSE IF s[k] = "0" THEN << k - 1 >> \o Filter0(s, k + 1)
       ELSE Filter0(s, k + 1)

Zeros_ones(secret) ==
  LET RECURSIVE F(_)
      F(k) == IF k > Len(secret) THEN << >>
              ELSE IF secret[k] = "1" THEN << k - 1 >> \o F(k + 1)
                   ELSE F(k + 1)
  IN  F(1)

Zeros_reversed(secret) ==
  LET rev == [ k \in 1 .. Len(secret) |-> secret[Len(secret) + 1 - k] ]
  IN  Filter0(rev, 1)

Zeros(secret) == Filter0(secret, 1)


(***************************************************************************)
(* Initial state: the module has been imported, no call has begun.         *)
(***************************************************************************)
ModuleAfterImport ==
  [ N_CONFIG_BITS |-> N_CONFIG_BITS, SECRET_BITSTRING |-> SECRET_BITSTRING ]

EmptyFrame ==
  [ n |-> 0, qc |-> NoRef, controls |-> << >>, anc |-> 0, zeros |-> << >>,
    it |-> 0, internal |-> NoRef, Uf_gate |-> Gate("", "", 0, NoRef),
    wrapper |-> NoRef ]

SimOff ==
  [ phase |-> "off", input |-> << >>, wires |-> << >>,
    applied |-> 0, t |-> 0, k |-> 0 ]

InitCalls ==
  /\ heap = << >>
  /\ pc = [ c \in Calls |-> "L78" ]
  /\ frame = [ c \in Calls |-> EmptyFrame ]
  /\ returned = [ c \in Calls |-> NoRef ]
  /\ sim = SimOff

Init ==
  /\ module = ModuleAfterImport
  /\ InitCalls

(***************************************************************************)
(* Helpers on the state.                                                   *)
(***************************************************************************)
Goto(c, label) == pc' = [ pc EXCEPT ![c] = label ]

Raise(c) == Goto(c, "CircuitError")

Alloc(ref, obj) == heap' = (ref :> obj) @@ heap

(***************************************************************************)
(* _build_internal_condor_oracle(), one action per statement.              *)
(***************************************************************************)
\* internal = _build_internal_condor_oracle()   -- the call
L78(c) ==
  /\ pc[c] = "L78"
  /\ Goto(c, "L31")
  /\ UNCHANGED << module, heap, frame, returned, sim >>

\* n = N_CONFIG_BITS
L31(c) ==
  /\ pc[c] = "L31"
  /\ frame' = [ frame EXCEPT ![c].n = module.N_CONFIG_BITS ]
  /\ Goto(c, "L32")
  /\ UNCHANGED << module, heap, returned, sim >>

\* qc = QuantumCircuit(n + 1, name="Uf_condor_internal")
L32(c) ==
  /\ pc[c] = "L32"
  /\ LET ref == NewRef(c, "internal")
     IN  /\ Alloc(ref, QuantumCircuit(frame[c].n + 1, "Uf_condor_internal"))
         /\ frame' = [ frame EXCEPT ![c].qc = ref ]
  /\ Goto(c, "L34")
  /\ UNCHANGED << module, returned, sim >>

\* controls = list(range(n))
L34_short(c) ==
  /\ pc[c] = "L34"
  /\ frame' = [ frame EXCEPT ![c].controls = range(frame[c].n - 1) ]
  /\ Goto(c, "L35")
  /\ UNCHANGED << module, heap, returned, sim >>

L34(c) ==
  /\ pc[c] = "L34"
  /\ frame' = [ frame EXCEPT ![c].controls = range(frame[c].n) ]
  /\ Goto(c, "L35")
  /\ UNCHANGED << module, heap, returned, sim >>

\* anc = n
L35(c) ==
  /\ pc[c] = "L35"
  /\ frame' = [ frame EXCEPT ![c].anc = frame[c].n ]
  /\ Goto(c, "L43")
  /\ UNCHANGED << module, heap, returned, sim >>

\* zeros = [i for i, b in enumerate(SECRET_BITSTRING) if b == "0"]
L43_reversing(c) ==
  /\ pc[c] = "L43"
  /\ frame' = [ frame EXCEPT ![c].zeros = Zeros(module.SECRET_BITSTRING),
                             ![c].it = 1 ]
  /\ module' = [ module EXCEPT !.SECRET_BITSTRING =
                   [ k \in 1 .. Len(@) |-> @[Len(@) + 1 - k] ] ]
  /\ Goto(c, "L46")
  /\ UNCHANGED << heap, returned, sim >>

L43(c) ==
  /\ pc[c] = "L43"
  /\ frame' = [ frame EXCEPT ![c].zeros = Zeros(module.SECRET_BITSTRING),
                             ![c].it = 1 ]
  /\ Goto(c, "L46")
  /\ UNCHANGED << module, heap, returned, sim >>

\* for i in zeros: qc.x(i)      -- one iteration, or the loop's exit
ForX(c, here, next) ==
  /\ pc[c] = here
  /\ LET f == frame[c]
         qc == heap[f.qc]
     IN  IF f.it > Len(f.zeros)
         THEN /\ Goto(c, next)
              /\ frame' = [ frame EXCEPT ![c].it = 1 ]
              /\ UNCHANGED heap
         ELSE LET i == f.zeros[f.it]
              IN  IF append_ok(qc, XGate, << i >>)
                  THEN /\ heap' = [ heap EXCEPT ![f.qc] = append(qc, XGate, << i >>) ]
                       /\ frame' = [ frame EXCEPT ![c].it = f.it + 1 ]
                       /\ UNCHANGED pc
                  ELSE /\ Raise(c)
                       /\ UNCHANGED << heap, frame >>
  /\ UNCHANGED << module, returned, sim >>

\* Pre-flip the '0' positions
L46_skipped(c) ==
  /\ pc[c] = "L46"
  /\ Goto(c, "L50")
  /\ UNCHANGED << module, heap, frame, returned, sim >>

L46(c) == ForX(c, "L46", "L50")

\* qc.mcx(controls, anc)
L50(c) ==
  /\ pc[c] = "L50"
  /\ LET f == frame[c]
         qc == heap[f.qc]
         gate == MCXGate(Len(f.controls))
         qargs == f.controls \o << f.anc >>
     IN  IF append_ok(qc, gate, qargs)
         THEN /\ heap' = [ heap EXCEPT ![f.qc] = append(qc, gate, qargs) ]
              /\ Goto(c, "L53")
         ELSE /\ Raise(c)
              /\ UNCHANGED heap
  /\ UNCHANGED << module, frame, returned, sim >>

\* Undo the flips
L53_skipped(c) ==
  /\ pc[c] = "L53"
  /\ Goto(c, "L56")
  /\ UNCHANGED << module, heap, frame, returned, sim >>

L53(c) == ForX(c, "L53", "L56")

\* return qc      -- and the assignment to `internal` in the caller
L56(c) ==
  /\ pc[c] = "L56"
  /\ frame' = [ frame EXCEPT ![c].internal = frame[c].qc ]
  /\ Goto(c, "L81")
  /\ UNCHANGED << module, heap, returned, sim >>

(***************************************************************************)
(* build_Uf_condor(), one action per statement.                            *)
(***************************************************************************)
\* Uf_gate = internal.to_gate(label=r"$U_f$")
L81(c) ==
  /\ pc[c] = "L81"
  /\ LET ref == NewRef(c, "definition")
         internal == heap[frame[c].internal]
     IN  /\ Alloc(ref, internal)
         /\ frame' = [ frame EXCEPT ![c].Uf_gate = to_gate(internal, "$U_f$", ref) ]
  /\ Goto(c, "L82")
  /\ UNCHANGED << module, returned, sim >>

\* Uf_gate.name = "Uf_condor"
L82(c) ==
  /\ pc[c] = "L82"
  /\ frame' = [ frame EXCEPT ![c].Uf_gate.name = "Uf_condor" ]
  /\ Goto(c, "L85")
  /\ UNCHANGED << module, heap, returned, sim >>

\* wrapper = QuantumCircuit(N_CONFIG_BITS + 1, name="Uf_condor")
L85(c) ==
  /\ pc[c] = "L85"
  /\ LET ref == NewRef(c, "wrapper")
     IN  /\ Alloc(ref, QuantumCircuit(module.N_CONFIG_BITS + 1, "Uf_condor"))
         /\ frame' = [ frame EXCEPT ![c].wrapper = ref ]
  /\ Goto(c, "L86")
  /\ UNCHANGED << module, returned, sim >>

\* wrapper.append(Uf_gate, wrapper.qubits)
L86_inlined(c) ==
  /\ pc[c] = "L86"
  /\ LET f == frame[c]
         wrapper == heap[f.wrapper]
     IN  heap' = [ heap EXCEPT ![f.wrapper] =
                     [ wrapper EXCEPT !.data = heap[f.Uf_gate.definition].data ] ]
  /\ Goto(c, "L88")
  /\ UNCHANGED << module, frame, returned, sim >>

L86(c) ==
  /\ pc[c] = "L86"
  /\ LET f == frame[c]
         wrapper == heap[f.wrapper]
         qubits == range(wrapper.num_qubits)
     IN  IF append_ok(wrapper, f.Uf_gate, qubits)
         THEN /\ heap' = [ heap EXCEPT ![f.wrapper] = append(wrapper, f.Uf_gate, qubits) ]
              /\ Goto(c, "L88")
         ELSE /\ Raise(c)
              /\ UNCHANGED heap
  /\ UNCHANGED << module, frame, returned, sim >>

\* return wrapper
L88(c) ==
  /\ pc[c] = "L88"
  /\ returned' = [ returned EXCEPT ![c] = frame[c].wrapper ]
  /\ Goto(c, "done")
  /\ UNCHANGED << module, heap, frame, sim >>

Step(c) ==
  \/ L78(c) \/ L31(c) \/ L32(c) \/ L34(c) \/ L35(c) \/ L43(c) \/ L46(c)
  \/ L50(c) \/ L53(c) \/ L56(c) \/ L81(c) \/ L82(c) \/ L85(c) \/ L86(c)
  \/ L88(c)

Next == \E c \in Calls : Step(c)

Spec == Init /\ [][Next]_vars

(***************************************************************************)
(* The action of a circuit description on a basis state: U_f as the        *)
(* docstrings state it, realised by the gates the description lists.  A    *)
(* register is a function from wire to bit; a caller supplies a register   *)
(* of N_CONFIG_BITS + 1 wires.                                             *)
(***************************************************************************)
Bit == { 0, 1 }

Flip(wires, w) == [ wires EXCEPT ![w] = 1 - @ ]

\* X: complement the wire.  MCX: complement the last wire iff every other
\* wire holds 1.  `map` places the gate's own qubits on the enclosing wires.
ApplyGate(g, wires, map) ==
  IF g.name = "x" THEN Flip(wires, map[g.qargs[1] + 1])
  ELSE IF \A j \in 1 .. Len(g.qargs) - 1 : wires[map[g.qargs[j] + 1]] = 1
       THEN Flip(wires, map[g.qargs[Len(g.qargs)] + 1])
       ELSE wires

\* a boxed instruction carries a definition; X and MCX are primitive
Boxed(top) == top.definition # NoRef

InnerLen(top) == IF Boxed(top) THEN Len(heap[top.definition].data) ELSE 1

RECURSIVE RunGates(_, _, _, _)
RunGates(data, k, wires, map) ==
  IF k > Len(data) THEN wires
  ELSE RunGates(data, k + 1, ApplyGate(data[k], wires, map), map)

\* one top-level instruction: a boxed gate runs its definition on its qubits
ApplyInstruction(top, wires, width) ==
  IF Boxed(top) THEN RunGates(heap[top.definition].data, 1, wires, top.qargs)
  ELSE ApplyGate(top, wires, range(width))

RECURSIVE RunInstructions(_, _, _, _)
RunInstructions(data, t, wires, width) ==
  IF t > Len(data) THEN wires
  ELSE RunInstructions(data, t + 1, ApplyInstruction(data[t], wires, width), width)

\* the whole circuit, applied once
RunCircuit(ref, wires) ==
  RunInstructions(heap[ref].data, 1, wires, heap[ref].num_qubits)

\* hand one basis state |x, y> to the circuits the calls in D returned
Prepare(D) ==
  /\ \A c \in D : pc[c] = "done"
  /\ sim.phase = "off"
  /\ \E input \in [ 0 .. module.N_CONFIG_BITS -> Bit ] :
       sim' = [ phase |-> "run", input |-> input, wires |-> [ c \in D |-> input ],
                applied |-> 0, t |-> 1, k |-> 1 ]
  /\ UNCHANGED << module, heap, pc, frame, returned >>

\* gate by gate: execute the primitive gate at position (t, k), instruction t
\* of the circuit and, within a boxed instruction, gate k of its definition
ApplyNext(c) ==
  /\ sim.phase = "run"
  /\ sim.applied < 1
  /\ LET circ == heap[returned[c]]
         top == circ.data[sim.t]
         wires == IF Boxed(top)
                  THEN ApplyGate(heap[top.definition].data[sim.k], sim.wires[c], top.qargs)
                  ELSE ApplyGate(top, sim.wires[c], range(circ.num_qubits))
         endTop == sim.k >= InnerLen(top)
         endAll == endTop /\ sim.t >= Len(circ.data)
     IN  sim' = [ sim EXCEPT !.wires[c] = wires,
                             !.k = IF endTop THEN 1 ELSE sim.k + 1,
                             !.t = IF endTop THEN sim.t + 1 ELSE sim.t,
                             !.applied = IF endAll THEN 1 ELSE 0 ]
  /\ UNCHANGED << module, heap, pc, frame, returned >>

\* the circuit as a unit: every register is fed through its circuit once more
ApplyCircuit(max) ==
  /\ sim.phase = "run"
  /\ sim.applied < max
  /\ sim' = [ sim EXCEPT !.wires = [ c \in DOMAIN @ |-> RunCircuit(returned[c], @[c]) ],
                         !.applied = @ + 1 ]
  /\ UNCHANGED << module, heap, pc, frame, returned >>

\* one call's circuit, decomposed and followed gate by gate
NextSim ==
  \/ \E c \in SimCalls : Step(c)
  \/ Prepare(SimCalls)
  \/ \E c \in SimCalls : ApplyNext(c)

SpecSim == Init /\ [][NextSim]_vars

\* one call's circuit, applied repeatedly
NextTwice ==
  \/ \E c \in SimCalls : Step(c)
  \/ Prepare(SimCalls)
  \/ ApplyCircuit(MaxApplications)

SpecTwice == Init /\ [][NextTwice]_vars

\* the circuits of all calls, however the calls interleaved, fed the same state
NextPair ==
  \/ \E c \in Calls : Step(c)
  \/ Prepare(Calls)
  \/ ApplyCircuit(1)

SpecPair == Init /\ [][NextPair]_vars

(***************************************************************************)
(* Other configurations of the module: line 12 with another string         *)
(* literal.  Lines 8 to 12 are plain assignments, so the import succeeds   *)
(* whatever the literal is.  "2" stands for any character but 0 and 1.     *)
(***************************************************************************)
Alphabet == { "0", "1", "2" }

Suffixes == UNION { [ 1 .. m -> Alphabet ] : m \in 1 .. MaxExtra }

SecretCandidates ==
  { SubSeq(SECRET_BITSTRING, 1, m) : m \in 0 .. Len(SECRET_BITSTRING) }
  \cup { SECRET_BITSTRING \o e : e \in Suffixes }
  \cup { [ SECRET_BITSTRING EXCEPT ![k] = ch ] :
           k \in 1 .. Len(SECRET_BITSTRING), ch \in Alphabet }

InitCfg ==
  /\ module \in [ N_CONFIG_BITS : { N_CONFIG_BITS },
                   SECRET_BITSTRING : SecretCandidates ]
  /\ InitCalls

SpecCfg == InitCfg /\ [][Next]_vars

(***************************************************************************)
(* Vocabulary of the properties.                                           *)
(***************************************************************************)
\* the ancilla wire of a register of N_CONFIG_BITS + 1 wires
AncillaWire == module.N_CONFIG_BITS

InputWires == 0 .. module.N_CONFIG_BITS - 1

\* bit i of the secret: character i of the string, no reversal
SecretBit(i) == IF module.SECRET_BITSTRING[i + 1] = "1" THEN 1 ELSE 0

\* f(x) = 1 iff x == SECRET_BITSTRING, and 0 otherwise
f(x) == IF \A i \in InputWires : x[i] = SecretBit(i) THEN 1 ELSE 0

Registers == DOMAIN sim.wires

\* the register stands between the pre-flip block and the multi-controlled gate
AtMCX(c) ==
  /\ sim.phase = "run"
  /\ sim.applied = 0
  /\ LET top == heap[returned[c]].data[sim.t]
     IN  Boxed(top) /\ heap[top.definition].data[sim.k].name = "mcx"

(***************************************************************************)
(* C1.  For every input x of N_CONFIG_BITS bits and every ancilla value y, *)
(* the gate sequence takes the basis state (x, y) to (x, y XOR [x ==       *)
(* secret]), secret bit i being character i of the string compared with    *)
(* wire i: the ancilla is flipped for the secret alone.                    *)
(***************************************************************************)
C1_OracleTruthTable ==
  \A c \in Registers :
    sim.applied = 1 =>
      sim.wires[c] =
        [ sim.input EXCEPT ![AncillaWire] = (@ + f(sim.input)) % 2 ]

C1_Witness ==
  /\ sim.applied = 1
  /\ f(sim.input) = 1
  /\ \E c \in Registers : sim.wires[c][AncillaWire] # sim.input[AncillaWire]

(***************************************************************************)
(* C3.  After the whole gate sequence every input wire 0..n-1 holds the    *)
(* value it held before; only the ancilla wire n may differ.               *)
(***************************************************************************)
C3_InputWiresRestored ==
  \A c \in Registers :
    sim.applied = 1 =>
      \A i \in InputWires : sim.wires[c][i] = sim.input[i]

C3_Witness ==
  /\ sim.applied = 1
  /\ f(sim.input) = 0
  /\ \E i \in InputWires : SecretBit(i) = 0 /\ sim.input[i] = 1
  /\ \E c \in Registers : \A i \in InputWires : sim.wires[c][i] = sim.input[i]

(***************************************************************************)
(* C9.  Between the pre-flip step and the multi-controlled gate, wire i    *)
(* holds 1 exactly when the original bit x_i equals the secret's bit i,    *)
(* and the ancilla still holds y; so all n controls are 1 there iff x      *)
(* equals the secret.                                                      *)
(***************************************************************************)
C9_AlignedBeforeMCX ==
  \A c \in Registers :
    AtMCX(c) =>
      /\ \A i \in InputWires :
           (sim.wires[c][i] = 1) <=> (sim.input[i] = SecretBit(i))
      /\ sim.wires[c][AncillaWire] = sim.input[AncillaWire]
      /\ (\A i \in InputWires : sim.wires[c][i] = 1) <=> (f(sim.input) = 1)

C9_Witness ==
  \E c \in Registers :
    /\ AtMCX(c)
    /\ f(sim.input) = 1
    /\ \A i \in InputWires : sim.wires[c][i] = 1
    /\ \E i \in InputWires : sim.input[i] = 0

(***************************************************************************)
(* C4.  Applying the oracle twice in sequence to any basis state (x, y)    *)
(* returns exactly (x, y).                                                 *)
(***************************************************************************)
C4_TwiceIsIdentity ==
  \A c \in Registers : sim.applied = 2 => sim.wires[c] = sim.input

C4_Witness ==
  /\ sim.applied = 2
  /\ f(sim.input) = 1
  /\ \E c \in Registers : sim.wires[c] = sim.input

(***************************************************************************)
(* C7.  Any two calls of the public builder return circuits with the same  *)
(* truth table: on every basis state both produce the same output state,   *)
(* whatever calls ran before or beside them.                               *)
(***************************************************************************)
C7_SameTruthTable ==
  sim.applied = 1 =>
    \A c1, c2 \in Registers : sim.wires[c1] = sim.wires[c2]

C7_Witness ==
  /\ sim.applied = 1
  /\ f(sim.input) = 1
  /\ \E c1, c2 \in Registers :
       /\ c1 # c2
       /\ returned[c1] # returned[c2]
       /\ sim.wires[c1] = sim.wires[c2]
       /\ sim.wires[c1] # sim.input

(***************************************************************************)
(* Vocabulary of the structural properties.                                *)
(***************************************************************************)
IsX(g, i) == g.name = "x" /\ g.qargs = << i >>

\* X-block, one MCX, X-block
OracleShape(data) ==
  LET n == module.N_CONFIG_BITS
      secret == module.SECRET_BITSTRING
      M == { k \in 1 .. Len(data) : data[k].name = "mcx" }
  IN  /\ Cardinality(M) = 1
      /\ \A m \in M :
           /\ Len(data[m].qargs) = n + 1
           /\ { data[m].qargs[j] : j \in 1 .. n } = 0 .. n - 1
           /\ data[m].qargs[n + 1] = n
           /\ \A k \in (1 .. Len(data)) \ { m } :
                \E i \in 0 .. n - 1 : IsX(data[k], i) /\ secret[i + 1] = "0"
           /\ \A i \in 0 .. n - 1 :
                secret[i + 1] = "0" =>
                  /\ Cardinality({ k \in 1 .. m - 1 : IsX(data[k], i) }) = 1
                  /\ Cardinality({ k \in m + 1 .. Len(data) : IsX(data[k], i) }) = 1

\* the objects a call holds: through its frame, and through what it returned
Held(c) ==
  ( { frame[c].qc, frame[c].internal, frame[c].wrapper,
      frame[c].Uf_gate.definition, returned[c] }
    \cup ( IF returned[c] = NoRef THEN { }
           ELSE { heap[returned[c]].data[k].definition :
                    k \in 1 .. Len(heap[returned[c]].data) } ) )
  \ { NoRef }

Malformed(secret) ==
  \/ Len(secret) # module.N_CONFIG_BITS
  \/ \E k \in 1 .. Len(secret) : secret[k] \notin { "0", "1" }

(***************************************************************************)
(* C2.  A secret pattern of another length than N_CONFIG_BITS, or with a   *)
(* character other than 0 and 1, is rejected when the module is            *)
(* initialised: with such a pattern no call of the builder returns a       *)
(* circuit, and none fails at call time.                                   *)
(***************************************************************************)
C2_MalformedSecretRejected ==
  Malformed(module.SECRET_BITSTRING) =>
    \A c \in Calls : pc[c] # "done" /\ pc[c] # "CircuitError"

(***************************************************************************)
(* C5.  The circuit the public builder returns holds exactly one top-level *)
(* operation: the wrapped oracle gate, applied once to all                 *)
(* N_CONFIG_BITS + 1 wires in ascending order; no X or MCX of the internal *)
(* sequence appears at the top level.                                      *)
(***************************************************************************)
C5_SingleBoxedOperation ==
  \A c \in Calls :
    pc[c] = "done" =>
      LET data == heap[returned[c]].data
      IN  /\ Len(data) = 1
          /\ data[1].name = "Uf_condor"
          /\ data[1].label = "$U_f$"
          /\ Boxed(data[1])
          /\ heap[data[1].definition].data = heap[frame[c].internal].data
          /\ data[1].qargs = [ k \in 1 .. module.N_CONFIG_BITS + 1 |-> k - 1 ]
          /\ \A k \in 1 .. Len(data) : data[k].name \notin { "x", "mcx" }

C5_Witness ==
  \E c \in Calls :
    /\ pc[c] = "done"
    /\ Len(heap[returned[c]].data) = 1
    /\ heap[returned[c]].data[1].name = "Uf_condor"
    /\ Len(heap[heap[returned[c]].data[1].definition].data) > 1

(***************************************************************************)
(* C6.  Every circuit the public builder returns, and the internal circuit *)
(* it wraps, declares exactly N_CONFIG_BITS + 1 wires, and N_CONFIG_BITS   *)
(* is 16 in every state.                                                   *)
(***************************************************************************)
C6_WidthInvariant ==
  /\ module.N_CONFIG_BITS = 16
  /\ \A c \in Calls :
       /\ frame[c].qc # NoRef =>
            heap[frame[c].qc].num_qubits = module.N_CONFIG_BITS + 1
       /\ frame[c].wrapper # NoRef =>
            heap[frame[c].wrapper].num_qubits = module.N_CONFIG_BITS + 1
       /\ pc[c] = "done" =>
            /\ heap[returned[c]].num_qubits = module.N_CONFIG_BITS + 1
            /\ \A k \in 1 .. Len(heap[returned[c]].data) :
                 LET g == heap[returned[c]].data[k]
                 IN  Boxed(g) =>
                       heap[g.definition].num_qubits = module.N_CONFIG_BITS + 1

C6_Witness ==
  \E c \in Calls :
    /\ pc[c] = "done"
    /\ heap[returned[c]].num_qubits = 17
    /\ heap[frame[c].internal].num_qubits = 17

(***************************************************************************)
(* C8.  When several callers run the public builder with their steps       *)
(* interleaved in any order, each receives its own complete circuit (the   *)
(* X / MCX / X sequence, wrapped once), no object of one call is an object *)
(* of another, and no step writes the secret or N_CONFIG_BITS.             *)
(***************************************************************************)
C8_IndependentCalls ==
  /\ module = ModuleAfterImport
  /\ \A c \in Calls : pc[c] # "CircuitError"
  /\ \A c \in Calls :
       pc[c] = "done" =>
         LET data == heap[returned[c]].data
         IN  /\ Len(data) = 1
             /\ Boxed(data[1])
             /\ OracleShape(heap[data[1].definition].data)
  /\ \A c1, c2 \in Calls : c1 # c2 => Held(c1) \cap Held(c2) = { }

C8_Witness ==
  \E c1, c2 \in Calls :
    /\ c1 # c2
    /\ pc[c1] = "done"
    /\ OracleShape(heap[heap[returned[c1]].data[1].definition].data)
    /\ pc[c2] = "L53"
    /\ frame[c2].it = 2
    /\ Held(c1) \cap Held(c2) = { }

(***************************************************************************)
(* C10.  The internal gate sequence is X-block, one MCX, X-block: exactly  *)
(* one multi-controlled gate, controlled on all input wires 0..n-1 with    *)
(* target n; every X acts on an input wire whose secret bit is 0, each     *)
(* such wire gets exactly one X before and one after the MCX, and no X     *)
(* acts on a wire whose secret bit is 1 or on the ancilla.                 *)
(***************************************************************************)
C10_InternalShape ==
  \A c \in Calls :
    frame[c].internal # NoRef => OracleShape(heap[frame[c].internal].data)

C10_Witness ==
  \E c \in Calls :
    /\ frame[c].internal # NoRef
    /\ LET data == heap[frame[c].internal].data
       IN  /\ data[1].name = "x"
           /\ data[Len(data)].name = "x"
           /\ \E k \in 2 .. Len(data) - 1 : data[k].name = "mcx"

=============================================================================
